---- MODULE Spec2Model ----
(***************************************************************************)
(* Model of src/settings.rs of kakoune-lsp: the resolution of a language   *)
(* server's settings from the dynamic configuration, the legacy flattened  *)
(* override and the static configuration, and the explosion of flattened   *)
(* "a.b=1" entries into a JSON tree.                                        *)
(*                                                                         *)
(* Strings that the code parses (map entries, their keys and raw values)   *)
(* are sequences of one-character strings, so that split_once('=') and     *)
(* split('.') are computed.  JSON object keys are such sequences too.      *)
(***************************************************************************)
EXTENDS Integers, Sequences, FiniteSets, TLC

(***************************************************************************)
(* Bounds of the model.                                                    *)
(***************************************************************************)
\* longest legacy reply / flattened map handed to explode_str_to_str_map
MaxEntries == 3

\* longest reply of the editor to lsp-get-server-initialization-options
MaxReply == 2

(***************************************************************************)
(* serde_json::Value and serde_json::Map.  Every value is a record of the  *)
(* same shape; Option<Value>::None is the record NoneV.                    *)
(***************************************************************************)
EmptyMap == [k \in {} |-> 0]

Number(i) == [kind |-> "Number", n |-> i, obj |-> EmptyMap]

Object(m) == [kind |-> "Object", n |-> 0, obj |-> m]

NoneV == [kind |-> "None", n |-> 0, obj |-> EmptyMap]

is_some(v) == v.kind # "None"

\* serde_json::Map::insert: the new value takes the key, whatever it held
MapInsert(m, k, v) == [x \in (DOMAIN m) \cup {k} |-> IF x = k THEN v ELSE m[x]]

\* serde_json::Value::get(key) on any value: None unless an object holding key
ValueGet(v, k) == IF v.kind = "Object" /\ k \in DOMAIN v.obj THEN v.obj[k] ELSE NoneV

RECURSIVE Lookup(_, _)
\* the value at a path of segments in a tree, NoneV when there is none
Lookup(tree, parts) ==
    IF parts = <<>> THEN Object(tree)
    ELSE IF Head(parts) \notin DOMAIN tree THEN NoneV
    ELSE IF Len(parts) = 1 THEN tree[Head(parts)]
    ELSE IF tree[Head(parts)].kind # "Object" THEN NoneV
    ELSE Lookup(tree[Head(parts)].obj, Tail(parts))

(***************************************************************************)
(* String helpers over sequences of characters.                            *)
(***************************************************************************)
RECURSIVE IndexOf(_, _, _)
\* position of the first c in s at or after i, 0 when there is none
IndexOf(s, c, i) ==
    IF i > Len(s) THEN 0
    ELSE IF s[i] = c THEN i
    ELSE IndexOf(s, c, i + 1)

\* str::split_once('='): None (ok = FALSE) when the entry holds no '='
split_once(s, c) ==
    LET i == IndexOf(s, c, 1)
    IN  IF i = 0 THEN [ok |-> FALSE, left |-> <<>>, right |-> <<>>]
        ELSE [ok |-> TRUE, left |-> SubSeq(s, 1, i - 1), right |-> SubSeq(s, i + 1, Len(s))]

RECURSIVE split(_, _)
\* str::split('.'): always at least one (possibly empty) part
split(s, c) ==
    LET i == IndexOf(s, c, 1)
    IN  IF i = 0 THEN <<s>>
        ELSE <<SubSeq(s, 1, i - 1)>> \o split(SubSeq(s, i + 1, Len(s)), c)

(***************************************************************************)
(* toml::from_str(raw_value) followed by toml_value.try_into(), on the raw *)
(* values that occur in the entries: "1" and "2" are values, "n" is a      *)
(* value that parses and that the conversion refuses, anything else does   *)
(* not parse.                                                              *)
(***************************************************************************)
toml_from_str(raw) ==
    IF raw = <<"1">> THEN [ok |-> TRUE, toml |-> 1]
    ELSE IF raw = <<"2">> THEN [ok |-> TRUE, toml |-> 2]
    ELSE IF raw = <<"n">> THEN [ok |-> TRUE, toml |-> -1]
    ELSE [ok |-> FALSE, toml |-> 0]

\* toml::Value -> serde_json::Value
try_into(toml) ==
    IF toml < 0 THEN [ok |-> FALSE, value |-> NoneV]
    ELSE [ok |-> TRUE, value |-> Number(toml)]

(***************************************************************************)
(* insert_value: the map is mutated in place, so the result carries the    *)
(* map as it is left, on success and on failure alike.                     *)
(***************************************************************************)
RECURSIVE insert_value_overwriting(_, _, _, _)
\* insert_value with `.entry(key).or_insert_with(..)` turned into an insert
\* of a fresh object whenever the key does not hold an object
insert_value_overwriting(target, path, local_key, value) ==
    IF path # <<>>
    THEN LET key == Head(path)
             entered == IF key \in DOMAIN target /\ target[key].kind = "Object"
                        THEN target
                        ELSE MapInsert(target, key, Object(EmptyMap))
             r == insert_value_overwriting(entered[key].obj, Tail(path), local_key, value)
         IN  [ok |-> r.ok, err |-> r.err,
              target |-> MapInsert(entered, key, Object(r.target))]
    ELSE IF local_key \in DOMAIN target
         THEN [ok |-> FALSE, err |-> "Replaced old value",
               target |-> MapInsert(target, local_key, value)]
         ELSE [ok |-> TRUE, err |-> "",
               target |-> MapInsert(target, local_key, value)]

RECURSIVE insert_value_fresh(_, _, _, _)
\* insert_value with `.entry(key).or_insert_with(..)` turned into
\* `.insert(key, Object(Map::new()))`: an existing object loses its members
insert_value_fresh(target, path, local_key, value) ==
    IF path # <<>>
    THEN LET key == Head(path)
             r == insert_value_fresh(EmptyMap, Tail(path), local_key, value)
         IN  IF key \in DOMAIN target /\ target[key].kind # "Object"
             THEN [ok |-> FALSE, err |-> "Expected path to be object", target |-> target]
             ELSE [ok |-> r.ok, err |-> r.err,
                   target |-> MapInsert(target, key, Object(r.target))]
    ELSE IF local_key \in DOMAIN target
         THEN [ok |-> FALSE, err |-> "Replaced old value",
               target |-> MapInsert(target, local_key, value)]
         ELSE [ok |-> TRUE, err |-> "",
               target |-> MapInsert(target, local_key, value)]

RECURSIVE insert_value(_, _, _, _)
insert_value(target, path, local_key, value) ==
    IF path # <<>>
    THEN LET key == Head(path)
             \* target.entry(key).or_insert_with(|| Object(Map::new()))
             entered == IF key \in DOMAIN target THEN target
                        ELSE MapInsert(target, key, Object(EmptyMap))
         IN  IF entered[key].kind # "Object"
             THEN [ok |-> FALSE, err |-> "Expected path to be object", target |-> entered]
             ELSE LET r == insert_value(entered[key].obj, Tail(path), local_key, value)
                  IN  [ok |-> r.ok, err |-> r.err,
                       target |-> MapInsert(entered, key, Object(r.target))]
    ELSE IF local_key \in DOMAIN target
         THEN [ok |-> FALSE, err |-> "Replaced old value",
               target |-> MapInsert(target, local_key, value)]
         ELSE [ok |-> TRUE, err |-> "",
               target |-> MapInsert(target, local_key, value)]

(***************************************************************************)
(* explode_str_to_str_map.                                                 *)
(***************************************************************************)
Front(s) == SubSeq(s, 1, Len(s) - 1)

Last(s) == s[Len(s)]

\* explode_entry skipping an entry without '=' with a warning, as it skips
\* the other malformed entries
explode_entry_skipping(settings, map_entry) ==
    LET kv == split_once(map_entry, "=")
        key_parts == split(kv.left, ".")
        parsed == toml_from_str(kv.right)
        converted == try_into(parsed.toml)
        inserted == insert_value(settings, Front(key_parts), Last(key_parts),
                                 converted.value)
    IN  IF ~kv.ok
        THEN [panic |-> FALSE, settings |-> settings, warn |-> "Got a setting without '='"]
        ELSE IF ~parsed.ok
        THEN [panic |-> FALSE, settings |-> settings,
              warn |-> "Could not parse TOML setting"]
        ELSE IF ~converted.ok
        THEN [panic |-> FALSE, settings |-> settings,
              warn |-> "Could not convert setting to JSON"]
        ELSE IF ~inserted.ok
        THEN [panic |-> FALSE, settings |-> inserted.target,
              warn |-> inserted.err]
        ELSE [panic |-> FALSE, settings |-> inserted.target, warn |-> ""]

\* One iteration of the loop `for map_entry in map.iter()` on the tree built
\* so far: the tree as the iteration leaves it, the warning it logs ("" when
\* none) and whether split_once(..).unwrap() panicked.
explode_entry(settings, map_entry) ==
    LET kv == split_once(map_entry, "=")
        key_parts == split(kv.left, ".")
        parsed == toml_from_str(kv.right)
        converted == try_into(parsed.toml)
        inserted == insert_value(settings, Front(key_parts), Last(key_parts),
                                 converted.value)
    IN  IF ~kv.ok
        THEN [panic |-> TRUE, settings |-> settings, warn |-> ""]
        ELSE IF Len(key_parts) = 0
        THEN [panic |-> FALSE, settings |-> settings,
              warn |-> "Got a setting with an empty local name"]
        ELSE IF ~parsed.ok
        THEN [panic |-> FALSE, settings |-> settings,
              warn |-> "Could not parse TOML setting"]
        ELSE IF ~converted.ok
        THEN [panic |-> FALSE, settings |-> settings,
              warn |-> "Could not convert setting to JSON"]
        ELSE IF ~inserted.ok
        THEN [panic |-> FALSE, settings |-> inserted.target,
              warn |-> inserted.err]
        ELSE [panic |-> FALSE, settings |-> inserted.target, warn |-> ""]

RECURSIVE explode_from(_, _, _)
\* the loop from entry i on; a panic ends the call without a result
explode_from(settings, map, i) ==
    IF i > Len(map) THEN [panic |-> FALSE, settings |-> settings]
    ELSE LET r == explode_entry(settings, map[i])
         IN  IF r.panic THEN [panic |-> TRUE, settings |-> EmptyMap]
             ELSE explode_from(r.settings, map, i + 1)

explode_str_to_str_map(map) == explode_from(EmptyMap, map, 1)

(***************************************************************************)
(* The flattened entries the host may hand over.                           *)
(***************************************************************************)
EntryPool ==
    { <<"a", "=", "1">>,
      <<"a", "=", "2">>,
      <<"b", "=", "1">>,
      <<"a", ".", "b", "=", "1">>,
      <<"a", ".", "b", "=", "2">>,
      <<"a", ".", "a", "=", "2">>,
      <<"a", ".", "b", ".", "a", "=", "1">>,
      <<"a", "=", "x">>,
      <<"a", "=", "n">>,
      <<"a">> }

RECURSIVE SeqsUpTo(_, _)
\* the sequences over S of length at most n
SeqsUpTo(S, n) ==
    IF n = 0 THEN {<<>>}
    ELSE LET shorter == SeqsUpTo(S, n - 1)
         IN  shorter \cup {Append(s, x) : s \in {t \in shorter : Len(t) = n - 1}, x \in S}

EntryLists == SeqsUpTo(EntryPool, MaxEntries)

(***************************************************************************)
(* The host's reply to lsp-get-server-initialization-options: tokens, the  *)
(* entries first and then the sentinel "map-end".                          *)
(***************************************************************************)
MapEnd == <<"m", "a", "p", "-", "e", "n", "d">>

LegacyPool ==
    { <<"a", "=", "1">>,
      <<"b", ".", "a", "=", "2">>,
      <<"a", "=", "x">>,
      <<"a">> }

LegacyReplies == {Append(l, MapEnd) : l \in SeqsUpTo(LegacyPool, MaxReply)}

RECURSIVE take_while_not(_, _)
\* iter.take_while(|s| s != "map-end").collect()
take_while_not(tokens, stop) ==
    IF tokens = <<>> \/ Head(tokens) = stop THEN <<>>
    ELSE <<Head(tokens)>> \o take_while_not(Tail(tokens), stop)

\* request_legacy_initialization_options_from_kakoune without the test
\* `server_configuration.is_empty()`: Some(Object) for any reply
legacy_initialization_options_always_some(reply) ==
    LET server_configuration == take_while_not(reply, MapEnd)
        exploded == explode_str_to_str_map(server_configuration)
    IN  IF exploded.panic THEN [panic |-> TRUE, value |-> NoneV]
        ELSE [panic |-> FALSE, value |-> Object(exploded.settings)]

\* request_legacy_initialization_options_from_kakoune, from the reply read
\* off the fifo on: None for no entry, else Some(Object(exploded entries))
legacy_initialization_options(reply) ==
    LET server_configuration == take_while_not(reply, MapEnd)
        exploded == explode_str_to_str_map(server_configuration)
    IN  IF server_configuration = <<>> THEN [panic |-> FALSE, value |-> NoneV]
        ELSE IF exploded.panic THEN [panic |-> TRUE, value |-> NoneV]
        ELSE [panic |-> FALSE, value |-> Object(exploded.settings)]

(***************************************************************************)
(* Servers, the static configuration (ctx.config) and the dynamic one.     *)
(***************************************************************************)
ServerIds == {1, 2}

ServerNames == {"s1", "s2"}

Root == "/project"

\* Option<String>
SomeStr(str) == [some |-> TRUE, val |-> str]

NoneStr == [some |-> FALSE, val |-> <<>>]

A == <<"a">>

B == <<"b">>

\* {"k": v}
Obj1(k, v) == Object(MapInsert(EmptyMap, k, v))

\* a per-server record of the static or of the dynamic configuration
ServerConfig(sttngs, section) == [settings |-> sttngs, settings_section |-> section]

\* name -> record, for the names given
Table2(c1, c2) == [name \in ServerNames |-> IF name = "s1" THEN c1 ELSE c2]

Table1(c1) == [name \in {"s1"} |-> c1]

\* the static tables server_configs(&ctx.config, meta) may be
StaticTables ==
    { Table2(ServerConfig(Obj1(A, Number(21)), SomeStr(A)),
             ServerConfig(Obj1(B, Number(22)), SomeStr(B))),
      Table2(ServerConfig(Obj1(A, Number(21)), NoneStr),
             ServerConfig(NoneV, SomeStr(A))),
      Table1(ServerConfig(Obj1(B, Obj1(A, Number(23))), SomeStr(<<"b", ".", "a">>))) }

server_configs(config) == config.language_server

is_using_legacy_toml(config) == config.legacy

\* DynamicConfig::default()
DefaultDynamicConfig == [language_server |-> EmptyMap]

\* the configuration texts the host may answer lsp-get-config with
ConfigTexts ==
    { "",
      "[language_server.s1.settings]\na = 11\n[language_server.s2.settings]\nb = 12",
      "[language_server.s1]\nsettings_section = 'b'\nsettings = { a = { b = 13 } }\n[language_server.s2]",
      "[language_server" }

\* toml::from_str::<DynamicConfig>(config), on the texts above
toml_from_str_config(config) ==
    IF config = ""
    THEN [ok |-> TRUE, cfg |-> DefaultDynamicConfig]
    ELSE IF config = "[language_server.s1.settings]\na = 11\n[language_server.s2.settings]\nb = 12"
    THEN [ok |-> TRUE,
          cfg |-> [language_server |->
                     Table2(ServerConfig(Obj1(A, Number(11)), NoneStr),
                            ServerConfig(Obj1(B, Number(12)), NoneStr))]]
    ELSE IF config = "[language_server.s1]\nsettings_section = 'b'\nsettings = { a = { b = 13 } }\n[language_server.s2]"
    THEN [ok |-> TRUE,
          cfg |-> [language_server |->
                     Table2(ServerConfig(Obj1(A, Obj1(B, Number(13))), SomeStr(B)),
                            ServerConfig(NoneV, NoneStr))]]
    ELSE [ok |-> FALSE, cfg |-> DefaultDynamicConfig]

\* the per-server override maps a request's meta.language_server may be
MetaServer(sttngs) == [root |-> Root, settings |-> sttngs]

Metas ==
    { [language_server |-> EmptyMap],
      [language_server |-> [name \in {"s2"} |-> MetaServer(Obj1(A, Number(31)))]],
      [language_server |-> [name \in ServerNames |->
                              IF name = "s1" THEN MetaServer(Obj1(A, Number(33)))
                              ELSE MetaServer(Obj1(A, Number(31)))]] }

\* ctx.language_servers after the servers are started
InitialServers ==
    [id \in ServerIds |-> [name |-> IF id = 1 THEN "s1" ELSE "s2", settings |-> NoneV]]

\* ctx.route_cache: every server routed, or server 2 not routed
RouteCaches ==
    { [key \in {<<"s1", Root>>, <<"s2", Root>>} |-> IF key[1] = "s1" THEN 1 ELSE 2],
      [key \in {<<"s1", Root>>} |-> 1] }

(***************************************************************************)
(* configured_section.                                                     *)
(***************************************************************************)
\* configured_section looking the section up as a dotted path
configured_section_by_path(config, language_servers, server_id, sttngs) ==
    LET server_name == language_servers[server_id].name
    IN  IF ~is_some(sttngs) THEN NoneV
        ELSE IF server_name \notin DOMAIN server_configs(config) THEN NoneV
        ELSE IF ~server_configs(config)[server_name].settings_section.some THEN NoneV
        ELSE IF sttngs.kind # "Object" THEN NoneV
        ELSE Lookup(sttngs.obj,
                    split(server_configs(config)[server_name].settings_section.val, "."))

configured_section(config, language_servers, server_id, sttngs) ==
    LET server_name == language_servers[server_id].name
    IN  IF ~is_some(sttngs) THEN NoneV
        ELSE IF server_name \notin DOMAIN server_configs(config) THEN NoneV
        ELSE IF ~server_configs(config)[server_name].settings_section.some THEN NoneV
        ELSE ValueGet(sttngs, server_configs(config)[server_name].settings_section.val)

\* ctx.dynamic_config.language_server.get(server_name)
\*    .and_then(|v| v.settings.as_ref())
dynamic_settings(dynamic_config, server_name) ==
    IF server_name \in DOMAIN dynamic_config.language_server
    THEN dynamic_config.language_server[server_name].settings
    ELSE NoneV

\* the dynamic source projecting through the section DynamicConfig names for
\* the server, when it names one
dynamic_source_own_section(ctx, server_id) ==
    LET server_name == ctx.language_servers[server_id].name
        sttngs == dynamic_settings(ctx.dynamic_config, server_name)
    IN  IF server_name \in DOMAIN ctx.dynamic_config.language_server
           /\ ctx.dynamic_config.language_server[server_name].settings_section.some
        THEN IF is_some(sttngs)
             THEN ValueGet(sttngs,
                     ctx.dynamic_config.language_server[server_name].settings_section.val)
             ELSE NoneV
        ELSE configured_section(ctx.config, ctx.language_servers, server_id, sttngs)

\* lines 29-35: what the dynamic source yields for a server
dynamic_source(ctx, server_id) ==
    LET server_name == ctx.language_servers[server_id].name
        sttngs == dynamic_settings(ctx.dynamic_config, server_name)
    IN  configured_section(ctx.config, ctx.language_servers, server_id, sttngs)

(***************************************************************************)
(* record_dynamic_config.  `order` is the order in which the loop meets    *)
(* the servers of meta.language_server.                                    *)
(***************************************************************************)
RECURSIVE push_overrides_skipping(_, _, _, _, _)
\* push_overrides going on to the next server when one has no route
push_overrides_skipping(language_servers, route_cache, meta, order, i) ==
    IF i > Len(order) THEN [panic |-> FALSE, language_servers |-> language_servers]
    ELSE IF <<order[i], meta.language_server[order[i]].root>> \notin DOMAIN route_cache
    THEN push_overrides_skipping(language_servers, route_cache, meta, order, i + 1)
    ELSE LET server_id == route_cache[<<order[i], meta.language_server[order[i]].root>>]
         IN  push_overrides_skipping(
                 [language_servers EXCEPT ![server_id].settings =
                                             meta.language_server[order[i]].settings],
                 route_cache, meta, order, i + 1)

RECURSIVE push_overrides(_, _, _, _, _)
\* the loop over meta.language_server from position i of order on
push_overrides(language_servers, route_cache, meta, order, i) ==
    IF i > Len(order) THEN [panic |-> FALSE, language_servers |-> language_servers]
    ELSE IF <<order[i], meta.language_server[order[i]].root>> \notin DOMAIN route_cache
    THEN [panic |-> TRUE, language_servers |-> language_servers]
    ELSE LET server_id == route_cache[<<order[i], meta.language_server[order[i]].root>>]
         IN  push_overrides(
                 [language_servers EXCEPT ![server_id].settings =
                                             meta.language_server[order[i]].settings],
                 route_cache, meta, order, i + 1)

\* record_dynamic_config without the test of is_using_legacy_toml
record_dynamic_config_any_mode(ctx, meta, order, config) ==
    LET parsed == toml_from_str_config(config)
        pushed == push_overrides(ctx.language_servers, ctx.route_cache, meta, order, 1)
    IN  IF ~parsed.ok
        THEN [panic |-> TRUE, execs |-> <<"lsp-show-error">>,
              dynamic_config |-> ctx.dynamic_config,
              language_servers |-> ctx.language_servers]
        ELSE [panic |-> pushed.panic, execs |-> <<>>,
              dynamic_config |-> parsed.cfg,
              language_servers |-> pushed.language_servers]

\* record_dynamic_config falling back to the default configuration when the
\* text does not parse
record_dynamic_config_defaulting(ctx, meta, order, config) ==
    LET parsed == toml_from_str_config(config)
        pushed == push_overrides(ctx.language_servers, ctx.route_cache, meta, order, 1)
    IN  IF ~parsed.ok
        THEN [panic |-> TRUE, execs |-> <<"lsp-show-error">>,
              dynamic_config |-> DefaultDynamicConfig,
              language_servers |-> ctx.language_servers]
        ELSE IF is_using_legacy_toml(ctx.config)
        THEN [panic |-> FALSE, execs |-> <<>>,
              dynamic_config |-> parsed.cfg,
              language_servers |-> ctx.language_servers]
        ELSE [panic |-> pushed.panic, execs |-> <<>>,
              dynamic_config |-> parsed.cfg,
              language_servers |-> pushed.language_servers]

record_dynamic_config(ctx, meta, order, config) ==
    LET parsed == toml_from_str_config(config)
        pushed == push_overrides(ctx.language_servers, ctx.route_cache, meta, order, 1)
    IN  IF ~parsed.ok
        THEN [panic |-> TRUE, execs |-> <<"lsp-show-error">>,
              dynamic_config |-> ctx.dynamic_config,
              language_servers |-> ctx.language_servers]
        ELSE IF is_using_legacy_toml(ctx.config)
        THEN [panic |-> FALSE, execs |-> <<>>,
              dynamic_config |-> parsed.cfg,
              language_servers |-> ctx.language_servers]
        ELSE [panic |-> pushed.panic, execs |-> <<>>,
              dynamic_config |-> parsed.cfg,
              language_servers |-> pushed.language_servers]

\* the orders in which a map with the given keys may be iterated
Orders(keys) == {o \in SeqsUpTo(keys, Cardinality(keys)) :
                    Len(o) = Cardinality(keys) /\ {o[n] : n \in 1..Len(o)} = keys}

(***************************************************************************)
(* State.                                                                  *)
(***************************************************************************)
VARIABLES
    map,        \* explode_str_to_str_map: the entries of the call
    idx,        \* ... the position of the loop in map
    settings,   \* ... the tree `settings` built so far
    warnings,   \* ... the warnings logged, each with the entry it is about
    fpc,        \* ... "loop", "returned" or "panicked"
    ctx,        \* Context: config, route_cache, language_servers, dynamic_config
    pc,         \* where the request being handled is
    meta,       \* EditorMeta of the request
    servers,    \* request_initialization_options_from_kakoune: its servers
    pos,        \* ... the position of `for &server_id in servers`
    sections,   \* ... the vector `sections`
    sources,    \* ... for each element of sections, the line that pushed it
    execs,      \* the commands ctx.exec sent to the editor for this request
    last_text,  \* the text handed to record_dynamic_config for this request
    last_valid, \* the text last handed to it, by any request, that parsed
    last_reply  \* the reply last read for the legacy override of this request

flatten_vars == <<map, idx, settings, warnings, fpc>>

request_vars == <<ctx, pc, meta, servers, pos, sections, sources, execs,
                  last_text, last_valid, last_reply>>

\* what is known of the past calls
history_vars == <<last_text, last_valid, last_reply>>

vars == <<map, idx, settings, warnings, fpc,
          ctx, pc, meta, servers, pos, sections, sources, execs,
          last_text, last_valid, last_reply>>

\* no text, no reply yet
NoText == "<none>"

NoHistory ==
    /\ last_text = NoText
    /\ last_valid = NoText
    /\ last_reply = <<>>

\* the lists of servers a resolution pass may be asked for: some of the
\* servers, each once, in any order
ServerLists == UNION {Orders(ids) : ids \in SUBSET ServerIds}

NoRequest ==
    /\ pc = "idle"
    /\ meta = [language_server |-> EmptyMap]
    /\ servers = <<>>
    /\ pos = 1
    /\ sections = <<>>
    /\ sources = <<>>
    /\ execs = <<>>

NoFlatten ==
    /\ map = <<>>
    /\ idx = 1
    /\ settings = EmptyMap
    /\ warnings = <<>>
    /\ fpc = "idle"

(***************************************************************************)
(* A call of explode_str_to_str_map, one loop iteration per step.          *)
(***************************************************************************)
FlattenInit ==
    /\ map \in EntryLists
    /\ idx = 1
    /\ settings = EmptyMap
    /\ warnings = <<>>
    /\ fpc = "loop"
    /\ NoRequest
    /\ ctx = [config |-> [legacy |-> FALSE, language_server |-> EmptyMap],
              route_cache |-> EmptyMap,
              language_servers |-> InitialServers,
              dynamic_config |-> DefaultDynamicConfig]
    /\ NoHistory

FlattenEntry ==
    /\ fpc = "loop"
    /\ idx <= Len(map)
    /\ LET r == explode_entry(settings, map[idx])
       IN  /\ settings' = r.settings
           /\ warnings' = IF r.warn = "" THEN warnings
                          ELSE Append(warnings, [entry |-> idx, reason |-> r.warn])
           /\ fpc' = IF r.panic THEN "panicked" ELSE "loop"
           /\ idx' = IF r.panic THEN idx ELSE idx + 1
    /\ UNCHANGED map
    /\ UNCHANGED request_vars

FlattenReturn ==
    /\ fpc = "loop"
    /\ idx > Len(map)
    /\ fpc' = "returned"
    /\ UNCHANGED <<map, idx, settings, warnings>>
    /\ UNCHANGED request_vars

FlattenNext == FlattenEntry \/ FlattenReturn

FlattenSpec == FlattenInit /\ [][FlattenNext]_vars

(***************************************************************************)
(* Requests: resolution passes (request_initialization_options_from_       *)
(* kakoune) and direct calls of record_dynamic_config.  A step runs the    *)
(* code up to the next point where it blocks on the editor's answer.       *)
(***************************************************************************)
Init ==
    /\ NoFlatten
    /\ NoRequest
    /\ \E legacy \in BOOLEAN, table \in StaticTables, routes \in RouteCaches :
          ctx = [config |-> [legacy |-> legacy, language_server |-> table],
                 route_cache |-> routes,
                 language_servers |-> InitialServers,
                 dynamic_config |-> DefaultDynamicConfig]
    /\ NoHistory

\* lines 26, 10-15: the pass starts and asks for the dynamic configuration
StartPass ==
    /\ pc = "idle"
    /\ \E list \in ServerLists, m \in Metas :
          /\ servers' = list
          /\ meta' = m
    /\ execs' = <<"lsp-get-config">>
    /\ pc' = "wait_config"
    /\ pos' = 1
    /\ sections' = <<>>
    /\ sources' = <<>>
    /\ UNCHANGED ctx
    /\ UNCHANGED history_vars
    /\ UNCHANGED flatten_vars

\* lines 16-17, 27: the editor answers; the answer is recorded
AnswerConfig ==
    /\ pc = "wait_config"
    /\ \E config \in ConfigTexts, order \in Orders(DOMAIN meta.language_server) :
          LET r == record_dynamic_config(ctx, meta, order, config)
          IN  /\ ctx' = [ctx EXCEPT !.dynamic_config = r.dynamic_config,
                                    !.language_servers = r.language_servers]
              /\ execs' = execs \o r.execs
              /\ pc' = IF r.panic THEN "panicked" ELSE "loop"
              /\ last_text' = config
              /\ last_valid' = IF toml_from_str_config(config).ok THEN config
                               ELSE last_valid
    /\ UNCHANGED <<meta, servers, pos, sections, sources, last_reply>>
    /\ UNCHANGED flatten_vars

\* ResolveServer asking for the dynamic configuration again, for each server
ResolveServer_RequestingConfig ==
    /\ pc = "loop"
    /\ pos <= Len(servers)
    /\ execs' = Append(execs, "lsp-get-config")
    /\ pc' = "wait_config"
    /\ servers' = Tail(servers)
    /\ UNCHANGED <<sections, sources, pos>>
    /\ UNCHANGED <<ctx, meta>>
    /\ UNCHANGED history_vars
    /\ UNCHANGED flatten_vars

\* ResolveServer asking for the legacy override before looking at the
\* dynamic configuration
ResolveServer_LegacyFirst ==
    /\ pc = "loop"
    /\ pos <= Len(servers)
    /\ execs' = Append(execs, "lsp-get-server-initialization-options")
    /\ pc' = "wait_legacy"
    /\ UNCHANGED <<sections, sources, pos>>
    /\ UNCHANGED <<ctx, meta, servers>>
    /\ UNCHANGED history_vars
    /\ UNCHANGED flatten_vars

\* ResolveServer sending the legacy request and going on without reading an
\* answer, as if the reply were empty and the static source yielded nothing
ResolveServer_NotWaiting ==
    /\ pc = "loop"
    /\ pos <= Len(servers)
    /\ LET server_id == servers[pos]
           sttngs == dynamic_source(ctx, server_id)
       IN  IF is_some(sttngs)
           THEN /\ sections' = Append(sections, sttngs)
                /\ sources' = Append(sources, "dynamic")
                /\ pos' = pos + 1
                /\ UNCHANGED <<pc, execs>>
           ELSE /\ execs' = Append(execs, "lsp-get-server-initialization-options")
                /\ sections' = Append(sections, NoneV)
                /\ sources' = Append(sources, "static")
                /\ pos' = pos + 1
                /\ UNCHANGED pc
    /\ UNCHANGED <<ctx, meta, servers>>
    /\ UNCHANGED history_vars
    /\ UNCHANGED flatten_vars

\* lines 28-39, 41 with 104-111: one server, up to the push of its dynamic
\* settings or to the request for the legacy override
ResolveServer ==
    /\ pc = "loop"
    /\ pos <= Len(servers)
    /\ LET server_id == servers[pos]
           sttngs == dynamic_source(ctx, server_id)
       IN  IF is_some(sttngs)
           THEN /\ sections' = Append(sections, sttngs)
                /\ sources' = Append(sources, "dynamic")
                /\ pos' = pos + 1
                /\ UNCHANGED <<pc, execs>>
           ELSE /\ execs' = Append(execs, "lsp-get-server-initialization-options")
                /\ pc' = "wait_legacy"
                /\ UNCHANGED <<sections, sources, pos>>
    /\ UNCHANGED <<ctx, meta, servers>>
    /\ UNCHANGED history_vars
    /\ UNCHANGED flatten_vars

\* AnswerLegacy pushing nothing for a server none of whose sources yields
AnswerLegacy_SkipAbsent ==
    /\ pc = "wait_legacy"
    /\ \E reply \in LegacyReplies :
          /\ last_reply' = reply
          /\ LET server_id == servers[pos]
                 server_name == ctx.language_servers[server_id].name
                 legacy_settings == legacy_initialization_options(reply)
             IN  IF legacy_settings.panic
                 THEN /\ pc' = "panicked"
                      /\ UNCHANGED <<sections, sources, pos>>
                 ELSE IF is_some(legacy_settings.value)
                 THEN /\ sections' = Append(sections, legacy_settings.value)
                      /\ sources' = Append(sources, "legacy")
                      /\ pos' = pos + 1
                      /\ pc' = "loop"
                 ELSE IF server_name \notin DOMAIN server_configs(ctx.config)
                 THEN /\ pc' = "panicked"
                      /\ UNCHANGED <<sections, sources, pos>>
                 ELSE IF ~is_some(configured_section(
                                     ctx.config, ctx.language_servers, server_id,
                                     server_configs(ctx.config)[server_name].settings))
                 THEN /\ pos' = pos + 1
                      /\ pc' = "loop"
                      /\ UNCHANGED <<sections, sources>>
                 ELSE /\ sections' = Append(sections,
                             configured_section(ctx.config, ctx.language_servers, server_id,
                                                server_configs(ctx.config)[server_name].settings))
                      /\ sources' = Append(sources, "static")
                      /\ pos' = pos + 1
                      /\ pc' = "loop"
    /\ UNCHANGED <<ctx, meta, servers, execs, last_text, last_valid>>
    /\ UNCHANGED flatten_vars

\* AnswerLegacy taking the legacy override only when it is a non-empty object
AnswerLegacy_NonEmptyOnly ==
    /\ pc = "wait_legacy"
    /\ \E reply \in LegacyReplies :
          /\ last_reply' = reply
          /\ LET server_id == servers[pos]
                 server_name == ctx.language_servers[server_id].name
                 legacy_settings == legacy_initialization_options(reply)
             IN  IF legacy_settings.panic
                 THEN /\ pc' = "panicked"
                      /\ UNCHANGED <<sections, sources, pos>>
                 ELSE IF is_some(legacy_settings.value)
                         /\ legacy_settings.value.obj # EmptyMap
                 THEN /\ sections' = Append(sections, legacy_settings.value)
                      /\ sources' = Append(sources, "legacy")
                      /\ pos' = pos + 1
                      /\ pc' = "loop"
                 ELSE IF server_name \notin DOMAIN server_configs(ctx.config)
                 THEN /\ pc' = "panicked"
                      /\ UNCHANGED <<sections, sources, pos>>
                 ELSE /\ sections' = Append(sections,
                             configured_section(ctx.config, ctx.language_servers, server_id,
                                                server_configs(ctx.config)[server_name].settings))
                      /\ sources' = Append(sources, "static")
                      /\ pos' = pos + 1
                      /\ pc' = "loop"
    /\ UNCHANGED <<ctx, meta, servers, execs, last_text, last_valid>>
    /\ UNCHANGED flatten_vars

\* lines 112-124, 42-50: the editor answers with the legacy override
AnswerLegacy ==
    /\ pc = "wait_legacy"
    /\ \E reply \in LegacyReplies :
          /\ last_reply' = reply
          /\ LET server_id == servers[pos]
                 server_name == ctx.language_servers[server_id].name
                 legacy_settings == legacy_initialization_options(reply)
             IN  IF legacy_settings.panic
                 THEN /\ pc' = "panicked"
                      /\ UNCHANGED <<sections, sources, pos>>
                 ELSE IF is_some(legacy_settings.value)
                 THEN /\ sections' = Append(sections, legacy_settings.value)
                      /\ sources' = Append(sources, "legacy")
                      /\ pos' = pos + 1
                      /\ pc' = "loop"
                 ELSE IF server_name \notin DOMAIN server_configs(ctx.config)
                 THEN /\ pc' = "panicked"
                      /\ UNCHANGED <<sections, sources, pos>>
                 ELSE /\ sections' = Append(sections,
                             configured_section(ctx.config, ctx.language_servers, server_id,
                                                server_configs(ctx.config)[server_name].settings))
                      /\ sources' = Append(sources, "static")
                      /\ pos' = pos + 1
                      /\ pc' = "loop"
    /\ UNCHANGED <<ctx, meta, servers, execs, last_text, last_valid>>
    /\ UNCHANGED flatten_vars

\* line 52: the pass returns `sections`
ReturnSections ==
    /\ pc = "loop"
    /\ pos > Len(servers)
    /\ pc' = "done"
    /\ UNCHANGED <<ctx, meta, servers, pos, sections, sources, execs>>
    /\ UNCHANGED history_vars
    /\ UNCHANGED flatten_vars

\* the caller takes the result; the next request may come
NextRequest ==
    /\ pc \in {"done", "recorded"}
    /\ pc' = "idle"
    /\ meta' = [language_server |-> EmptyMap]
    /\ servers' = <<>>
    /\ pos' = 1
    /\ sections' = <<>>
    /\ sources' = <<>>
    /\ execs' = <<>>
    /\ last_text' = NoText
    /\ last_reply' = <<>>
    /\ UNCHANGED <<ctx, last_valid>>
    /\ UNCHANGED flatten_vars

\* a direct call of record_dynamic_config (lines 70-94)
RecordDynamicConfig ==
    /\ pc = "idle"
    /\ \E m \in Metas, config \in ConfigTexts :
          \E order \in Orders(DOMAIN m.language_server) :
             LET r == record_dynamic_config(ctx, m, order, config)
             IN  /\ meta' = m
                 /\ ctx' = [ctx EXCEPT !.dynamic_config = r.dynamic_config,
                                       !.language_servers = r.language_servers]
                 /\ execs' = r.execs
                 /\ pc' = IF r.panic THEN "panicked" ELSE "recorded"
                 /\ last_text' = config
                 /\ last_valid' = IF toml_from_str_config(config).ok THEN config
                                  ELSE last_valid
    /\ UNCHANGED <<servers, pos, sections, sources, last_reply>>
    /\ UNCHANGED flatten_vars

Next ==
    \/ StartPass
    \/ AnswerConfig
    \/ ResolveServer
    \/ AnswerLegacy
    \/ ReturnSections
    \/ NextRequest
    \/ RecordDynamicConfig

Spec == Init /\ [][Next]_vars

\* Spec with an editor that answers every request (lines 16 and 112 return)
\* and a thread that runs the code between two answers
FairSpec ==
    /\ Init
    /\ [][Next]_vars
    /\ WF_vars(AnswerConfig)
    /\ WF_vars(AnswerLegacy)
    /\ WF_vars(ResolveServer)
    /\ WF_vars(ReturnSections)

(***************************************************************************)
(* Vocabulary of the properties.                                           *)
(***************************************************************************)
\* the dotted key of an entry, as its segments
EntryKey(e) == split(split_once(e, "=").left, ".")

\* the entry has a '=', and its value parses and converts
WellFormed(e) ==
    /\ split_once(e, "=").ok
    /\ toml_from_str(split_once(e, "=").right).ok
    /\ try_into(toml_from_str(split_once(e, "=").right).toml).ok

EntryValue(e) == try_into(toml_from_str(split_once(e, "=").right).toml).value

RECURSIVE Leaves(_)
\* the paths of the nodes of a tree that have no member
Leaves(tree) ==
    UNION { IF tree[k].kind = "Object" /\ DOMAIN tree[k].obj # {}
            THEN {<<k>> \o p : p \in Leaves(tree[k].obj)}
            ELSE {<<k>>} : k \in DOMAIN tree }

IsPrefix(p, q) == Len(p) <= Len(q) /\ SubSeq(q, 1, Len(p)) = p

\* the diagnostic logged about entry i, if any
Warned(i, reason) == \E w \in 1..Len(warnings) :
                        warnings[w] = [entry |-> i, reason |-> reason]

(***************************************************************************)
(* C1: within one call, when two well-formed entries carry the same dotted *)
(* key, the later one is rejected with a conflict diagnostic and the tree  *)
(* keeps the value of the earlier one at that path.  Stated on the loop    *)
(* iteration of the later entry, the earlier entry's value being in place. *)
(***************************************************************************)
C1_LaterDuplicateIsDropped ==
    [][ (/\ fpc = "loop"
         /\ idx <= Len(map)
         /\ WellFormed(map[idx])
         /\ \E i \in 1..(idx - 1) :
               /\ WellFormed(map[i])
               /\ EntryKey(map[i]) = EntryKey(map[idx])
               /\ Lookup(settings, EntryKey(map[i])) = EntryValue(map[i]))
        => (/\ warnings' = Append(warnings, [entry |-> idx, reason |-> "Replaced old value"])
            /\ Lookup(settings', EntryKey(map[idx])) = Lookup(settings, EntryKey(map[idx])))
      ]_vars

\* the path of a well-formed entry meets a value that is no object
PassesThroughNonObject(tree, e) ==
    /\ WellFormed(e)
    /\ \E n \in 1..(Len(EntryKey(e)) - 1) :
          /\ is_some(Lookup(tree, SubSeq(EntryKey(e), 1, n)))
          /\ Lookup(tree, SubSeq(EntryKey(e), 1, n)).kind # "Object"

(***************************************************************************)
(* C5: an entry whose path passes through a key that holds a non-object    *)
(* value is rejected with a diagnostic and leaves the tree exactly as it   *)
(* was: the earlier value stays and no intermediate object is left behind. *)
(***************************************************************************)
C5_BlockedPathLeavesTreeUnchanged ==
    [][ (/\ fpc = "loop"
         /\ idx <= Len(map)
         /\ PassesThroughNonObject(settings, map[idx]))
        => (/\ settings' = settings
            /\ warnings' = Append(warnings, [entry |-> idx,
                                             reason |-> "Expected path to be object"])
            /\ idx' = idx + 1
            /\ fpc' = "loop")
      ]_vars

\* an entry has just been rejected for passing through a non-object, below
\* the top level of a tree that holds something else as well
C5_Witness ==
    /\ idx > 1
    /\ Warned(idx - 1, "Expected path to be object")
    /\ Len(EntryKey(map[idx - 1])) = 3
    /\ settings # EmptyMap

\* well-formed entries, no key equal to or a dotted prefix of another
UniquePaths(m) ==
    /\ \A i \in 1..Len(m) : WellFormed(m[i])
    /\ \A i, j \in 1..Len(m) :
          i # j => ~IsPrefix(EntryKey(m[i]), EntryKey(m[j]))

(***************************************************************************)
(* C6: for well-formed entries with pairwise distinct keys none of which   *)
(* is a dotted prefix of another, the returned tree holds each entry's     *)
(* value at its path and has no other leaf.                                *)
(***************************************************************************)
C6_UniquePathsRoundTrip ==
    (fpc = "returned" /\ UniquePaths(map))
    => /\ \A i \in 1..Len(map) : Lookup(settings, EntryKey(map[i])) = EntryValue(map[i])
       /\ Leaves(settings) = {EntryKey(map[i]) : i \in 1..Len(map)}

\* three entries, two of them under the same intermediate object
C6_Witness ==
    /\ fpc = "returned"
    /\ UniquePaths(map)
    /\ Len(map) = 3
    /\ \E i, j \in 1..Len(map) :
          i # j /\ Len(EntryKey(map[i])) = 2 /\ Front(EntryKey(map[i])) = Front(EntryKey(map[j]))

(***************************************************************************)
(* Vocabulary of the properties about requests.                            *)
(***************************************************************************)
LegacyRequest == "lsp-get-server-initialization-options"

\* what the dynamic source yields for a server (lines 29-35)
DynamicYield(id) ==
    configured_section(ctx.config, ctx.language_servers, id,
                       dynamic_settings(ctx.dynamic_config, ctx.language_servers[id].name))

\* what the static source yields for a server that has a static record
StaticYield(id) ==
    configured_section(ctx.config, ctx.language_servers, id,
                       server_configs(ctx.config)[ctx.language_servers[id].name].settings)

HasStaticRecord(id) == ctx.language_servers[id].name \in DOMAIN server_configs(ctx.config)

\* how many times a command was sent
Count(log, cmd) == Cardinality({n \in 1..Len(log) : log[n] = cmd})

\* the entries of a reply, before the sentinel
Entries(reply) == take_while_not(reply, MapEnd)

(***************************************************************************)
(* C2: a server for which the dynamic source yields a value gets that      *)
(* value verbatim, from the dynamic source, and the legacy override is not *)
(* asked for on its behalf.                                                *)
(***************************************************************************)
C2_DynamicWins ==
    /\ \A k \in 1..Len(sections) :
          is_some(DynamicYield(servers[k]))
          => sections[k] = DynamicYield(servers[k]) /\ sources[k] = "dynamic"
    /\ pc = "wait_legacy" => ~is_some(DynamicYield(servers[pos]))

\* a finished pass in which a server got its dynamic value although its
\* static settings yield another one, and another server got a legacy override
C2_Witness ==
    /\ pc = "done"
    /\ \E k, j \in 1..Len(sections) :
          /\ sources[k] = "dynamic"
          /\ HasStaticRecord(servers[k])
          /\ is_some(StaticYield(servers[k]))
          /\ StaticYield(servers[k]) # sections[k]
          /\ sources[j] = "legacy"

(***************************************************************************)
(* C3 as claimed: the legacy override is requested at most once per pass.  *)
(***************************************************************************)
C3_LegacyRequestedOncePerPass == Count(execs, LegacyRequest) <= 1

(***************************************************************************)
(* C3 as amended: the legacy override is requested once for each server    *)
(* for which the dynamic source yields nothing, and for no other server.   *)
(***************************************************************************)
C3_LegacyRequestedPerFallThrough ==
    pc \in {"loop", "wait_legacy", "done"}
    => Count(execs, LegacyRequest)
         = Cardinality({k \in 1..Len(sections) : ~is_some(DynamicYield(servers[k]))})
           + (IF pc = "wait_legacy" THEN 1 ELSE 0)

\* a finished pass that asked twice
C3_Witness ==
    /\ pc = "done"
    /\ Count(execs, LegacyRequest) = 2

\* the recorded texts and the steps that record them
ParseOf(text) == IF text = NoText THEN DefaultDynamicConfig
                 ELSE toml_from_str_config(text).cfg

C4_LatestValid == ctx.dynamic_config = ParseOf(last_valid)

\* a step that runs record_dynamic_config
Records == pc \in {"idle", "wait_config"} /\ pc' \notin {"idle", "wait_config"}

C4_RecordStep ==
    Records =>
        IF toml_from_str_config(last_text').ok
        THEN ctx'.dynamic_config = toml_from_str_config(last_text').cfg
        ELSE /\ ctx' = ctx
             /\ execs' = Append(execs, "lsp-show-error")
             /\ pc' = "panicked"

(***************************************************************************)
(* C4: DynamicConfig is the parse of the last text that parsed, the        *)
(* default before any did; a text that does not parse leaves the context   *)
(* (DynamicConfig, the registry) as it was, is reported with               *)
(* lsp-show-error and ends in a panic; a text that parses replaces         *)
(* DynamicConfig by its parse.                                             *)
(***************************************************************************)
C4_RecordReplacesOrKeeps == []C4_LatestValid /\ [][C4_RecordStep]_vars

\* a text that does not parse has been recorded after one that set servers
C4_Witness ==
    /\ pc = "panicked"
    /\ last_text # NoText
    /\ ~toml_from_str_config(last_text).ok
    /\ last_valid # NoText
    /\ ctx.dynamic_config # DefaultDynamicConfig
    /\ Count(execs, "lsp-show-error") = 1

\* the step that reads the reply to the legacy request
C7_LegacyStep ==
    (pc = "wait_legacy" /\ pc' # "wait_legacy") =>
        IF Entries(last_reply') = <<>>
        THEN /\ legacy_initialization_options(last_reply') = [panic |-> FALSE, value |-> NoneV]
             /\ IF HasStaticRecord(servers[pos])
                THEN /\ sections' = Append(sections, StaticYield(servers[pos]))
                     /\ sources' = Append(sources, "static")
                     /\ pc' = "loop"
                ELSE pc' = "panicked"
        ELSE pc' # "panicked" =>
                /\ Len(sections') = Len(sections) + 1
                /\ Last(sections').kind = "Object"
                /\ sources' = Append(sources, "legacy")
                /\ pc' = "loop"

(***************************************************************************)
(* C7: a reply with no entry before "map-end" gives None, and the driver   *)
(* goes on to the static fallback; a reply with an entry gives an object,  *)
(* which the driver takes, if the call returns at all.                     *)
(***************************************************************************)
C7_AbsentContinuesObjectStops == [][C7_LegacyStep]_vars

\* the reply held the sentinel alone and the static settings were used
C7_Witness ==
    /\ pc = "loop"
    /\ last_reply = <<MapEnd>>
    /\ sources # <<>>
    /\ Last(sources) = "static"
    /\ is_some(Last(sections))

\* the trees at hand: those of the two configurations, and some more
ProbeTrees ==
    {NoneV, Number(1), Obj1(A, Number(1)), Obj1(<<"b", ".", "a">>, Number(5))}
    \cup {dynamic_settings(ctx.dynamic_config, name) : name \in ServerNames}
    \cup {server_configs(ctx.config)[name].settings : name \in DOMAIN server_configs(ctx.config)}

C8_Projection ==
    \A id \in ServerIds, tree \in ProbeTrees :
        LET name == ctx.language_servers[id].name
            table == ctx.config.language_server
            result == configured_section(ctx.config, ctx.language_servers, id, tree)
        IN  IF tree = NoneV THEN result = NoneV
            ELSE IF name \notin DOMAIN table THEN result = NoneV
            ELSE IF ~table[name].settings_section.some THEN result = NoneV
            ELSE IF tree.kind # "Object" THEN result = NoneV
            ELSE IF table[name].settings_section.val \notin DOMAIN tree.obj
            THEN result = NoneV
            ELSE result = tree.obj[table[name].settings_section.val]

\* the steps that call configured_section leave the context alone
C8_ContextKept == pc \in {"loop", "wait_legacy"} => (ctx' = ctx)

(***************************************************************************)
(* C8: configured_section gives None for no tree, for a server without a   *)
(* section name and for a section name that is no top-level key of the     *)
(* tree; otherwise the value at that one key; the context is not changed.  *)
(***************************************************************************)
C8_OneLevelProjection ==
    /\ []C8_Projection
    /\ [][C8_ContextKept]_vars

\* the static settings of a server were projected to a value
C8_Witness ==
    /\ pc = "done"
    /\ \E k \in 1..Len(sections) : sources[k] = "static" /\ is_some(sections[k])

(***************************************************************************)
(* C9: a pass that completes returns one value per server, in the order of *)
(* the servers, each from one of the three sources.                        *)
(***************************************************************************)
C9_OneResultPerServer ==
    pc = "done" =>
        /\ Len(sections) = Len(servers)
        /\ Len(sources) = Len(servers)
        /\ \A k \in 1..Len(sections) :
              \/ sources[k] = "dynamic" /\ is_some(sections[k])
                                        /\ sections[k] = DynamicYield(servers[k])
              \/ sources[k] = "legacy" /\ sections[k].kind = "Object"
              \/ sources[k] = "static" /\ sections[k] = StaticYield(servers[k])

\* a finished pass over two servers, one of them with no settings at all
C9_Witness ==
    /\ pc = "done"
    /\ Len(servers) = 2
    /\ \E k \in 1..Len(sections) : sources[k] = "static" /\ ~is_some(sections[k])

(***************************************************************************)
(* C10 as claimed: the legacy override is a server's result only when it   *)
(* is a non-empty object.                                                  *)
(***************************************************************************)
C10_LegacyOnlyWhenNonEmpty ==
    \A k \in 1..Len(sections) : sources[k] = "legacy" => sections[k].obj # EmptyMap

\* the step that reads a reply holding an entry, and returns
C10_LegacyStep ==
    (pc = "wait_legacy" /\ pc' = "loop" /\ Entries(last_reply') # <<>>) =>
        /\ sources' = Append(sources, "legacy")
        /\ sections' = Append(sections,
                              Object(explode_str_to_str_map(Entries(last_reply')).settings))
        /\ (\A n \in 1..Len(Entries(last_reply')) : ~WellFormed(Entries(last_reply')[n]))
           => sections' = Append(sections, Object(EmptyMap))

(***************************************************************************)
(* C10 as amended: whenever the reply holds an entry and the flattening    *)
(* returns, the flattened object is the server's result, the empty object  *)
(* that is left when every entry is skipped included; the static fallback  *)
(* is not used then.                                                       *)
(***************************************************************************)
C10_LegacyTakenEvenWhenEmpty == [][C10_LegacyStep]_vars

\* every entry of the reply was skipped and the empty object was taken,
\* although the static settings yield a value
C10_Witness ==
    /\ pc = "loop"
    /\ Entries(last_reply) # <<>>
    /\ sources # <<>>
    /\ Last(sources) = "legacy"
    /\ Last(sections) = Object(EmptyMap)
    /\ HasStaticRecord(servers[pos - 1])
    /\ is_some(StaticYield(servers[pos - 1]))


(***************************************************************************)
(* C11: a server for which the dynamic source, the legacy override and the *)
(* static settings all yield nothing gets an absent result and the pass    *)
(* goes on, also when the static configuration has no record for it.       *)
(* Stated on the step that reads an empty legacy reply.                    *)
(***************************************************************************)
C11_NothingYieldsAbsent ==
    [][ (/\ pc = "wait_legacy"
         /\ pc' # "wait_legacy"
         /\ Entries(last_reply') = <<>>
         /\ (HasStaticRecord(servers[pos]) => ~is_some(StaticYield(servers[pos]))))
        => (/\ pc' = "loop"
            /\ pos' = pos + 1
            /\ sections' = Append(sections, NoneV))
      ]_vars


(***************************************************************************)
(* Vocabulary of the properties about the registry.                        *)
(***************************************************************************)
\* a step that runs record_dynamic_config on a text that parses
RecordsValid == Records /\ toml_from_str_config(last_text').ok

\* the servers the request's override map names
Named == DOMAIN meta'.language_server

\* a named server has no route entry for (server name, project root)
SomeUnrouted ==
    \E name \in Named :
        <<name, meta'.language_server[name].root>> \notin DOMAIN ctx.route_cache

\* the registry entries the step changed
Overwritten == {id \in ServerIds : ctx'.language_servers[id] # ctx.language_servers[id]}

C12_Step ==
    (RecordsValid /\ pc' # "panicked") =>
        /\ ctx'.dynamic_config = toml_from_str_config(last_text').cfg
        /\ IF ctx.config.legacy
           THEN ctx'.language_servers = ctx.language_servers
           ELSE \A id \in ServerIds :
                   LET name == ctx.language_servers[id].name
                   IN  /\ ctx'.language_servers[id].name = name
                       /\ ctx'.language_servers[id].settings =
                              IF name \in Named THEN meta'.language_server[name].settings
                              ELSE ctx.language_servers[id].settings

(***************************************************************************)
(* C12: after a record_dynamic_config that returns, outside legacy mode    *)
(* every server the override map names has the override as its registry    *)
(* settings and the other servers keep theirs; in legacy mode the registry *)
(* is as it was; in both modes DynamicConfig is the parse of the text.     *)
(***************************************************************************)
C12_OverridesPushedOutsideLegacyMode == [][C12_Step]_vars

\* outside legacy mode a call that names server 2 alone has returned, and
\* server 1 keeps settings that an earlier call gave it
C12_Witness ==
    /\ pc \in {"loop", "recorded"}
    /\ ~ctx.config.legacy
    /\ DOMAIN meta.language_server = {"s2"}
    /\ ctx.language_servers[2].settings = meta.language_server["s2"].settings
    /\ is_some(ctx.language_servers[1].settings)


(***************************************************************************)
(* C16 as claimed: outside legacy mode a call that names a server without  *)
(* a route entry ends in a panic, and no registry entry is overwritten by  *)
(* such a call.                                                            *)
(***************************************************************************)
C16_UnroutedIsFatalAndNothingOverwritten ==
    [][ (RecordsValid /\ ~ctx.config.legacy /\ SomeUnrouted)
        => (pc' = "panicked" /\ Overwritten = {})
      ]_vars

\* every registry entry the step changed belongs to a named server that has a
\* route entry, and now holds that server's override
OnlyRoutedOverwritten ==
    \A id \in Overwritten :
        LET name == ctx.language_servers[id].name
        IN  /\ name \in Named
            /\ <<name, meta'.language_server[name].root>> \in DOMAIN ctx.route_cache
            /\ ctx'.language_servers[id] =
                  [name |-> name, settings |-> meta'.language_server[name].settings]

(***************************************************************************)
(* C16 as amended: outside legacy mode a call that names a server without  *)
(* a route entry ends in a panic and does not skip that server; by then    *)
(* DynamicConfig is replaced, and the named servers that have a route      *)
(* entry and that the loop met before the unrouted one are overwritten     *)
(* with their overrides; no other registry entry is changed.               *)
(***************************************************************************)
C16_UnroutedIsFatal ==
    [][ (RecordsValid /\ ~ctx.config.legacy /\ SomeUnrouted)
        => (/\ pc' = "panicked"
            /\ ctx'.dynamic_config = toml_from_str_config(last_text').cfg
            /\ OnlyRoutedOverwritten)
      ]_vars

\* a call has panicked on the unrouted server 2 after it overwrote server 1
C16_Witness ==
    /\ pc = "panicked"
    /\ ~ctx.config.legacy
    /\ last_text # NoText
    /\ toml_from_str_config(last_text).ok
    /\ DOMAIN meta.language_server = ServerNames
    /\ <<"s2", Root>> \notin DOMAIN ctx.route_cache
    /\ ctx.language_servers[1].settings = meta.language_server["s1"].settings
    /\ ~is_some(ctx.language_servers[2].settings)


(***************************************************************************)
(* Vocabulary of the properties about skipped and accepted entries.        *)
(***************************************************************************)
\* entry i was skipped with a diagnostic
Skipped(i) == \E w \in 1..Len(warnings) : warnings[w].entry = i

RECURSIVE NotSkipped(_)
\* the first n entries of map that were not skipped, in input order
NotSkipped(n) ==
    IF n = 0 THEN <<>>
    ELSE IF Skipped(n) THEN NotSkipped(n - 1)
    ELSE Append(NotSkipped(n - 1), map[n])

(***************************************************************************)
(* C13: the returned tree is the tree that inserting, in input order, the  *)
(* entries that were not skipped gives: a skipped entry contributes        *)
(* nothing, and every entry is processed, those after a skipped one too.   *)
(***************************************************************************)
C13_SkippedEntriesContributeNothing ==
    fpc = "returned" =>
        /\ idx = Len(map) + 1
        /\ settings = explode_str_to_str_map(NotSkipped(Len(map))).settings

(***************************************************************************)
(* C14: within one call a value stored at a path by an accepted entry is   *)
(* not changed or removed by a later entry; a later entry whose key names  *)
(* a node that holds an object built by earlier entries is rejected and    *)
(* the nested values stay at their paths.  Stated on one loop iteration.   *)
(***************************************************************************)
C14_AcceptedValuesStay ==
    [][ (fpc = "loop" /\ idx <= Len(map))
        => \A i \in 1..(idx - 1) :
              (/\ WellFormed(map[i])
               /\ ~Skipped(i)
               /\ Lookup(settings, EntryKey(map[i])) = EntryValue(map[i]))
              => Lookup(settings', EntryKey(map[i])) = EntryValue(map[i])
      ]_vars


(***************************************************************************)
(* Vocabulary of the properties about the dynamic configuration of a pass. *)
(***************************************************************************)
\* the pass is past the recording of the dynamic configuration
InIteration == pc \in {"loop", "wait_legacy", "done"}

C15_RecordedOnceBeforeServers ==
    /\ pc = "wait_config" => (execs = <<"lsp-get-config">> /\ sections = <<>> /\ pos = 1)
    /\ InIteration =>
          /\ execs[1] = "lsp-get-config"
          /\ Count(execs, "lsp-get-config") = 1
          /\ last_text # NoText
          /\ ctx.dynamic_config = toml_from_str_config(last_text).cfg

C15_IterationKeepsConfig ==
    (InIteration /\ pc' # "idle") =>
        /\ ctx'.dynamic_config = ctx.dynamic_config
        /\ last_text' = last_text

(***************************************************************************)
(* C15: in a pass the dynamic configuration is requested and recorded      *)
(* once, before the first server is resolved; every server of the pass is  *)
(* resolved against the configuration recorded then, which the iteration   *)
(* over the servers does not change.                                       *)
(***************************************************************************)
C15_DynamicConfigOncePerPass ==
    /\ []C15_RecordedOnceBeforeServers
    /\ [][C15_IterationKeepsConfig]_vars

\* a pass over two servers is done, under a recorded configuration that is
\* not the default one
C15_Witness ==
    /\ pc = "done"
    /\ Len(servers) = 2
    /\ Count(execs, "lsp-get-config") = 1
    /\ ctx.dynamic_config # DefaultDynamicConfig


(***************************************************************************)
(* Vocabulary of the properties about entries without '='.                 *)
(***************************************************************************)
HasEquals(e) == split_once(e, "=").ok

\* the first entry without '=', 0 when every entry has one
RECURSIVE FirstWithoutEquals(_, _)
FirstWithoutEquals(m, i) ==
    IF i > Len(m) THEN 0
    ELSE IF ~HasEquals(m[i]) THEN i
    ELSE FirstWithoutEquals(m, i + 1)

C17_Outcome ==
    /\ fpc = "returned" => FirstWithoutEquals(map, 1) = 0
    /\ fpc = "panicked" =>
          /\ idx = FirstWithoutEquals(map, 1)
          /\ \A w \in 1..Len(warnings) : warnings[w].entry < idx
    /\ explode_str_to_str_map(map).panic <=> FirstWithoutEquals(map, 1) # 0

C17_Iteration ==
    /\ fpc = "panicked" => UNCHANGED vars
    /\ (fpc = "loop" /\ idx <= Len(map)) =>
          IF HasEquals(map[idx])
          THEN fpc' = "loop" /\ idx' = idx + 1
          ELSE fpc' = "panicked" /\ idx' = idx /\ warnings' = warnings

(***************************************************************************)
(* C17: an entry without '=' makes the whole call fail: the call panics at *)
(* that entry, returns no tree, although the entries before it were        *)
(* inserted, and processes no entry after it; every other malformed entry  *)
(* is skipped with a diagnostic and the loop goes on.                      *)
(***************************************************************************)
C17_MissingEqualsIsFatal == []C17_Outcome /\ [][C17_Iteration]_vars

\* the call panicked at its third entry, after it inserted one entry and
\* skipped another
C17_Witness ==
    /\ fpc = "panicked"
    /\ idx = 3
    /\ settings # EmptyMap
    /\ Len(warnings) = 1


(***************************************************************************)
(* Vocabulary of the property about the section name.                      *)
(***************************************************************************)
SectionNames == {NoneStr, SomeStr(A), SomeStr(B)}

\* the context whose DynamicConfig differs only in one server's
\* settings_section
WithSection(c, name, section) ==
    [c EXCEPT !.dynamic_config.language_server[name].settings_section = section]

DynamicNames == DOMAIN ctx.dynamic_config.language_server

C19_SameDynamicYield ==
    \A id \in ServerIds, name \in DynamicNames, section \in SectionNames :
        dynamic_source(WithSection(ctx, name, section), id) = dynamic_source(ctx, id)

C19_PushedThroughStaticSection ==
    pc \in {"loop", "wait_legacy", "done"} =>
        \A k \in 1..Len(sections) :
            sources[k] = "dynamic" =>
                \A name \in DynamicNames, section \in SectionNames :
                    LET c == WithSection(ctx, name, section)
                    IN  sections[k] =
                            configured_section(c.config, c.language_servers, servers[k],
                                dynamic_settings(c.dynamic_config,
                                                 c.language_servers[servers[k]].name))

(***************************************************************************)
(* C19: the dynamic source projects through the section name of the static *)
(* configuration: a DynamicConfig that differs only in a server's          *)
(* settings_section yields the same value for every server, and the values *)
(* the pass pushed from the dynamic source are those values.  The legacy   *)
(* and the static source do not read DynamicConfig.                        *)
(***************************************************************************)
C19_SectionNameIsStatic == C19_SameDynamicYield /\ C19_PushedThroughStaticSection

\* a pass pushed a dynamic value for a server whose DynamicConfig record
\* names a section other than the static one
C19_Witness ==
    /\ pc = "done"
    /\ \E k \in 1..Len(sections) :
          LET name == ctx.language_servers[servers[k]].name
          IN  /\ sources[k] = "dynamic"
              /\ name \in DynamicNames
              /\ name \in DOMAIN server_configs(ctx.config)
              /\ ctx.dynamic_config.language_server[name].settings_section.some
              /\ ctx.dynamic_config.language_server[name].settings_section
                    # server_configs(ctx.config)[name].settings_section


(***************************************************************************)
(* Vocabulary of the properties about the round trips.                     *)
(***************************************************************************)
Waiting == pc \in {"wait_config", "wait_legacy"}

HostRequests == {"lsp-get-config", LegacyRequest}

\* a step that sends a request to the editor
Sends ==
    /\ execs' # execs
    /\ execs' # <<>>
    /\ Last(execs') \in HostRequests
    /\ Len(execs') = 1 \/ Len(execs') = Len(execs) + 1

\* a request is sent by a step that then waits for its answer
C18_SendThenBlock == Sends => (~Waiting /\ Waiting')

\* the only step of a waiting pass is the one that reads the answer: the
\* waiting ends with it, and nothing is yielded before it
C18_OnlyTheAnswerUnblocks ==
    Waiting => \/ pc = "wait_config" /\ AnswerConfig
               \/ pc = "wait_legacy" /\ AnswerLegacy

\* a waiting pass has yielded nothing: it is neither done nor failed
C18_WaitingYieldsNothing ==
    Waiting => /\ pc \notin {"done", "panicked"}
               /\ Len(sections) < Len(servers) \/ pc = "wait_config"

(***************************************************************************)
(* C18 as claimed: a request is sent and then awaited, a pass whose        *)
(* requests are not answered does not go on, and a pass all of whose       *)
(* requests are answered completes.                                        *)
(***************************************************************************)
C18_AnsweredPassCompletes ==
    /\ [][C18_SendThenBlock]_vars
    /\ [][C18_OnlyTheAnswerUnblocks]_vars
    /\ []C18_WaitingYieldsNothing
    /\ (pc = "wait_config") ~> (pc = "done")

(***************************************************************************)
(* C18, amended: a request is sent and then awaited, a pass whose requests *)
(* are not answered does not go on and yields nothing, and a pass all of   *)
(* whose requests are answered either completes or ends in a panic.        *)
(***************************************************************************)
C18_AnsweredPassEnds ==
    /\ [][C18_SendThenBlock]_vars
    /\ [][C18_OnlyTheAnswerUnblocks]_vars
    /\ []C18_WaitingYieldsNothing
    /\ (pc = "wait_config") ~> (pc \in {"done", "panicked"})

\* a pass over two servers completed after three answered round trips
C18_Witness ==
    /\ pc = "done"
    /\ execs = <<"lsp-get-config", LegacyRequest, LegacyRequest>>
    /\ Len(sections) = 2
    /\ last_text # NoText
    /\ last_reply # <<>>

====
